---- MODULE Spec2Model ----
(***************************************************************************)
(* Document Q&A: chunking and the persisted index (doc_qa/indexer.py),     *)
(* BM25 retrieval (doc_qa/retriever.py), the grounding composer            *)
(* (doc_qa/composer.py) and the ask command (main.py).                     *)
(*                                                                         *)
(* Strings that the code splits or joins are sequences of tokens: a word   *)
(* is one token, a whitespace character is one token.  A file on disk is   *)
(* the sequence of JSON tokens written to it so far.                       *)
(***************************************************************************)
EXTENDS Integers, Sequences, FiniteSets, TLC

(* ------------------------------------------------------------------ *)
(* Program constants                                                   *)
(* ------------------------------------------------------------------ *)
CHUNK_WORDS == 250

OVERLAP_WORDS == 50

TOP_K == 6

\* Optional[int] page_num: None is written -1 (page numbers start at 1).
NonePage == -1

\* Optional[str] section: None.
NoneSection == "<None>"

(* ------------------------------------------------------------------ *)
(* Bounds of the model                                                 *)
(* ------------------------------------------------------------------ *)
\* Longest segment, in words, that the chunker is run on.
MaxWords == 610

\* Number of index_document calls in one behaviour.
MaxBuilds == 3

\* Tokens the buffer of the open index file holds before it is written out.
BufferTokens == 4

(* ------------------------------------------------------------------ *)
(* Text                                                                *)
(* ------------------------------------------------------------------ *)
Whitespace == {" ", "\n"}

Min(a, b) == IF a < b THEN a ELSE b

IsWord(t) == t \notin Whitespace

\* str.split(): the maximal runs of non-whitespace, in order.
Split(text) == SelectSeq(text, IsWord)

\* " ".join(words)
Join(words) ==
    IF Len(words) = 0 THEN <<>>
    ELSE [j \in 1..(2 * Len(words) - 1) |->
            IF j % 2 = 1 THEN words[(j + 1) \div 2] ELSE " "]

\* str.lower() on one word.
Lower(w) ==
    CASE w = "Alpha" -> "alpha"
      [] w = "Beta" -> "beta"
      [] OTHER -> w

\* _tokenize: text.lower().split()
_tokenize(text) ==
    LET words == Split(text)
    IN [i \in 1..Len(words) |-> Lower(words[i])]

(* ------------------------------------------------------------------ *)
(* Chunker                                                             *)
(* ------------------------------------------------------------------ *)
\* The while loop of _build_chunks without its "if end == len(words): break".
RECURSIVE ChunkLoopNoBreak(_, _, _, _, _, _)
ChunkLoopNoBreak(doc_id, words, page_num, section, start, uuid) ==
    IF ~(start < Len(words)) THEN <<>>
    ELSE LET end == Min(start + CHUNK_WORDS, Len(words))
             c == [chunk_id |-> uuid,
                   doc_id |-> doc_id,
                   text |-> Join(SubSeq(words, start + 1, end)),
                   page_num |-> page_num,
                   section |-> section,
                   word_start |-> start]
         IN <<c>> \o ChunkLoopNoBreak(doc_id, words, page_num, section,
                                      start + (CHUNK_WORDS - OVERLAP_WORDS), uuid + 1)

\* The while loop of _build_chunks for one segment, from offset start; uuid is
\* the next fresh chunk_id (uuid4().hex[:8] never repeats an identifier).
RECURSIVE ChunkLoop(_, _, _, _, _, _)
ChunkLoop(doc_id, words, page_num, section, start, uuid) ==
    IF ~(start < Len(words)) THEN <<>>
    ELSE LET end == Min(start + CHUNK_WORDS, Len(words))
             c == [chunk_id |-> uuid,
                   doc_id |-> doc_id,
                   text |-> Join(SubSeq(words, start + 1, end)),
                   page_num |-> page_num,
                   section |-> section,
                   word_start |-> start]
         IN IF end = Len(words) THEN <<c>>
            ELSE <<c>> \o ChunkLoop(doc_id, words, page_num, section,
                                    start + (CHUNK_WORDS - OVERLAP_WORDS), uuid + 1)

\* _build_chunks: the chunks of every segment, in segment order.
RECURSIVE _build_chunks(_, _, _)
_build_chunks(doc_id, segments, uuid) ==
    IF Len(segments) = 0 THEN <<>>
    ELSE LET seg == segments[1]
             cs == ChunkLoop(doc_id, Split(seg.text), seg.page_num, seg.section, 0, uuid)
         IN cs \o _build_chunks(doc_id, Tail(segments), uuid + Len(cs))

(* ------------------------------------------------------------------ *)
(* Index store: the files of INDEX_DIR                                 *)
(* ------------------------------------------------------------------ *)
Paths == {"a.txt", "b.pdf"}

DocIds == {"a5e54d1fd7bb", "6f48c255b952"}

\* _doc_id: hashlib.md5(str(filepath).encode()).hexdigest()[:12], a fixed
\* function of the path (distinct on the paths of the model).
_doc_id(filepath) ==
    CASE filepath = "a.txt" -> "a5e54d1fd7bb"
      [] filepath = "b.pdf" -> "6f48c255b952"

\* A file that does not exist.
NoFile == [exists |-> FALSE, data |-> <<>>]

\* open(index_path, "a"): keeps what the file holds.
FileOpenAppend(file) == [exists |-> TRUE, data |-> file.data]

\* open(index_path, "w"): creates the file or truncates it to nothing.
FileOpenW(file) == [exists |-> TRUE, data |-> <<>>]

\* JSON values of the Python values None, int and str.
JsonOfInt(n) == IF n = NonePage THEN [null |-> TRUE] ELSE [num |-> n]

JsonOfStr(x) == IF x = NoneSection THEN [null |-> TRUE] ELSE [str |-> x]

IntOfJson(j) == IF j = [null |-> TRUE] THEN NonePage ELSE j.num

StrOfJson(j) == IF j = [null |-> TRUE] THEN NoneSection ELSE j.str

\* The JSON object json.dump writes for one chunk dict.
JsonOfChunk(c) ==
    [chunk_id |-> [num |-> c.chunk_id],
     doc_id |-> [str |-> c.doc_id],
     text |-> [str |-> c.text],
     page_num |-> JsonOfInt(c.page_num),
     section |-> JsonOfStr(c.section),
     word_start |-> [num |-> c.word_start]]

\* A reader that looks page_num up under another key and finds nothing.
ChunkOfJsonNoPage(j) ==
    [chunk_id |-> j.chunk_id.num,
     doc_id |-> j.doc_id.str,
     text |-> j.text.str,
     page_num |-> NonePage,
     section |-> StrOfJson(j.section),
     word_start |-> j.word_start.num]

\* The dict json.load makes of one element of "chunks".
ChunkOfJson(j) ==
    [chunk_id |-> j.chunk_id.num,
     doc_id |-> j.doc_id.str,
     text |-> j.text.str,
     page_num |-> IntOfJson(j.page_num),
     section |-> StrOfJson(j.section),
     word_start |-> j.word_start.num]

\* json.dump({"doc_id": .., "filepath": .., "chunks": [..]}, f): the tokens of
\* the document, in the order they are written.
Dump(doc_id, filepath, chunks) ==
    <<[t |-> "{"],
      [t |-> "doc_id", v |-> [str |-> doc_id]],
      [t |-> "filepath", v |-> [str |-> filepath]],
      [t |-> "chunks", v |-> [open |-> TRUE]]>>
    \o [i \in 1..Len(chunks) |-> [t |-> "item", v |-> JsonOfChunk(chunks[i])]]
    \o <<[t |-> "]"], [t |-> "}"]>>

\* json.load(f): the object a complete document holds; anything else (an empty
\* file, a prefix of a document, a document followed by more) is a JSONDecodeError.
WellFormed(data) ==
    /\ Len(data) >= 6
    /\ data[1].t = "{"
    /\ data[2].t = "doc_id"
    /\ data[3].t = "filepath"
    /\ data[4].t = "chunks"
    /\ \A i \in 5..(Len(data) - 2) : data[i].t = "item"
    /\ data[Len(data) - 1].t = "]"
    /\ data[Len(data)].t = "}"

Parse(data) ==
    [doc_id |-> data[2].v.str,
     filepath |-> data[3].v.str,
     chunks |-> [i \in 1..(Len(data) - 6) |-> ChunkOfJson(data[i + 4].v)]]

(* ------------------------------------------------------------------ *)
(* Retrieval                                                           *)
(* ------------------------------------------------------------------ *)
\* Number of occurrences of term in tokens.
TermFreq(term, tokens) == Cardinality({i \in 1..Len(tokens) : tokens[i] = term})

RECURSIVE SumSeq(_)
SumSeq(s) == IF Len(s) = 0 THEN 0 ELSE s[1] + SumSeq(Tail(s))

\* BM25Okapi(tokenized).get_scores(query) of the rank_bm25 library, in units of
\* 10^-5: the sum over the query's tokens of idf(term) * tf * (k1 + 1) /
\* (tf + k1 * (1 - b + b * len / avglen)) with k1 = 1.5 and b = 0.75 in exact
\* integer arithmetic (scaled by 8 * total length), the logarithm of the IDF
\* replaced by the integer 1 + (number of chunks without the term).
Bm25Scores(tokenized, query) ==
    LET n == Len(tokenized)
        total == SumSeq([i \in 1..n |-> Len(tokenized[i])])
        tf == [j \in 1..Len(query) |-> [i \in 1..n |-> TermFreq(query[j], tokenized[i])]]
        idf == [j \in 1..Len(query) |-> 1 + Cardinality({i \in 1..n : tf[j][i] = 0})]
        Contribution(j, i) ==
            LET num == 20 * total * tf[j][i]
                den == 8 * total * tf[j][i] + 3 * total + 9 * Len(tokenized[i]) * n
                \* num * 10^5 \div den, by long division
                hi == (num * 1000) \div den
                lo == (((num * 1000) % den) * 100) \div den
            IN idf[j] * (hi * 100 + lo)
    IN [i \in 1..n |-> SumSeq([j \in 1..Len(query) |-> Contribution(j, i)])]

\* round(float(score), 4): to the nearest multiple of 10^-4, halves to even.
Round4(score) ==
    LET q == score \div 10
        r == score % 10
    IN IF r < 5 THEN 10 * q
       ELSE IF r > 5 THEN 10 * (q + 1)
       ELSE IF q % 2 = 0 THEN 10 * q ELSE 10 * (q + 1)

\* Insertion of one (chunk, score) pair before the first pair whose score is not higher:
\* a descending sort that puts later equal elements first.
RECURSIVE InsertBeforeEqual(_, _)
InsertBeforeEqual(sorted, x) ==
    IF Len(sorted) = 0 THEN <<x>>
    ELSE IF sorted[1][2] > x[2] THEN <<sorted[1]>> \o InsertBeforeEqual(Tail(sorted), x)
    ELSE <<x>> \o sorted

\* Insertion of one (chunk, score) pair after every pair whose score is not lower.
RECURSIVE InsertDesc(_, _)
InsertDesc(sorted, x) ==
    IF Len(sorted) = 0 THEN <<x>>
    ELSE IF sorted[1][2] >= x[2] THEN <<sorted[1]>> \o InsertDesc(Tail(sorted), x)
    ELSE <<x>> \o sorted

\* sorted(pairs, key=lambda x: x[1], reverse=True): descending by score, stable.
RECURSIVE SortedDesc(_)
SortedDesc(pairs) ==
    IF Len(pairs) = 0 THEN <<>>
    ELSE InsertDesc(SortedDesc(SubSeq(pairs, 1, Len(pairs) - 1)), pairs[Len(pairs)])

\* The body of retrieve after load_index: score, sort, keep top_k, annotate.
RetrieveFrom(chunks, question, top_k) ==
    LET tokenized == [i \in 1..Len(chunks) |-> _tokenize(chunks[i].text)]
        scores == Bm25Scores(tokenized, _tokenize(question))
        scored == SortedDesc([i \in 1..Len(chunks) |-> <<chunks[i], scores[i]>>])
        top == SubSeq(scored, 1, Min(top_k, Len(scored)))
    IN [i \in 1..Len(top) |->
          [chunk_id |-> top[i][1].chunk_id,
           doc_id |-> top[i][1].doc_id,
           text |-> top[i][1].text,
           page_num |-> top[i][1].page_num,
           section |-> top[i][1].section,
           word_start |-> top[i][1].word_start,
           score |-> Round4(top[i][2])]]

(* ------------------------------------------------------------------ *)
(* Grounding composer                                                  *)
(* ------------------------------------------------------------------ *)
\* The refusal of rule 2 of _SYSTEM, which cmd_ask also prints.
REFUSAL == "I can't find this in the document."

\* The backend's reply is a sequence of tokens: "fence_json" is ```json, "fence"
\* is ```, "ws" is whitespace, "prose" is any other text, and "json" is the text
\* of one JSON value v.
HasToken(text, kinds) == \E i \in 1..Len(text) : text[i].t \in kinds

FirstToken(text, kinds) ==
    CHOOSE i \in 1..Len(text) :
        /\ text[i].t \in kinds
        /\ \A j \in 1..(i - 1) : text[j].t \notin kinds

\* text.split(marker, 1)[1]
AfterFirst(text, kinds) == SubSeq(text, FirstToken(text, kinds) + 1, Len(text))

\* text.split(marker, 1)[0]
BeforeFirst(text, kinds) ==
    IF HasToken(text, kinds) THEN SubSeq(text, 1, FirstToken(text, kinds) - 1)
    ELSE text

\* str.strip()
RECURSIVE Strip(_)
Strip(text) ==
    IF Len(text) = 0 THEN text
    ELSE IF text[1].t = "ws" THEN Strip(Tail(text))
    ELSE IF text[Len(text)].t = "ws" THEN Strip(SubSeq(text, 1, Len(text) - 1))
    ELSE text

\* The text _parse_json hands to json.loads: "```" is a substring of "```json".
Unfenced(text) ==
    IF HasToken(text, {"fence_json"})
    THEN BeforeFirst(AfterFirst(text, {"fence_json"}), {"fence", "fence_json"})
    ELSE IF HasToken(text, {"fence"})
    THEN BeforeFirst(AfterFirst(text, {"fence"}), {"fence"})
    ELSE text

\* json.loads accepts exactly the text of one JSON value.
JsonLoads(text) ==
    IF Len(text) = 1 /\ text[1].t = "json"
    THEN [ok |-> TRUE, data |-> text[1].v]
    ELSE [ok |-> FALSE, data |-> [kind |-> "none"]]

_parse_json(text) == JsonLoads(Strip(Unfenced(text)))

\* data.get("found", False)
FoundOf(data) == IF data.has_found THEN data.found ELSE FALSE

\* not data.get("found", True)
FallbackOf(data) == ~(IF data.has_found THEN data.found ELSE TRUE)

\* An answer that is the refusal whenever the reply did not find one.
AnswerOrRefusal(data) ==
    IF ~FoundOf(data) THEN REFUSAL
    ELSE IF data.has_answer THEN data.answer ELSE ""

\* data.get("answer", "")
AnswerOf(data) == IF data.has_answer THEN data.answer ELSE ""

\* data.get("citations", [])
CitationsOf(data) == IF data.has_citations THEN data.citations ELSE <<>>

\* The dict compose_answer returns.
ComposeResult(question, chunks, doc_id, data) ==
    [question |-> question,
     doc_id |-> doc_id,
     found |-> FoundOf(data),
     answer |-> AnswerOf(data),
     citations |-> CitationsOf(data),
     retrieved_chunk_ids |-> [i \in 1..Len(chunks) |-> chunks[i].chunk_id],
     fallback |-> FallbackOf(data)]

\* What cmd_ask prints for a result: the refusal and the first three passages
\* when fallback is set, the answer and its citations otherwise.
Printed(result, chunks) ==
    IF result.fallback
    THEN [answer |-> REFUSAL,
          passages |-> [i \in 1..Min(3, Len(chunks)) |-> chunks[i].chunk_id],
          citations |-> <<>>]
    ELSE [answer |-> result.answer,
          passages |-> <<>>,
          citations |-> result.citations]

(* ------------------------------------------------------------------ *)
(* State                                                               *)
(* ------------------------------------------------------------------ *)
VARIABLES
    ck_pc,         \* chunker run: "off" | "input" | "done"
    ck_segment,    \* the segment handed to _build_chunks
    ck_chunks,     \* what _build_chunks returned
    index_dir,     \* INDEX_DIR: doc_id -> the file <doc_id>_chunks.json
    ix_pc,         \* index_document: "idle" | "open" | "write"
    ix_filepath,   \* its filepath argument
    ix_segments,   \* its segments argument
    ix_doc_id,     \* its local doc_id
    ix_chunks,     \* its local chunks
    ix_pending,    \* tokens json.dump has still to write
    ix_ret,        \* the doc_id the last call returned, by path
    uuid_next,     \* the next fresh chunk_id
    n_builds,      \* index_document calls so far
    built,         \* history: doc_id -> the last completed build (its arguments and chunks)
    rt_pc,         \* retrieve: "idle" | "check" | "read" | "done"
    rt_doc_id,     \* its doc_id argument
    rt_question,   \* its question argument
    rt_top_k,      \* its top_k argument
    rt_outcome,    \* "" | "ok" | "FileNotFoundError" | "JSONDecodeError"
    rt_chunks,     \* the chunks load_index returned
    rt_results,    \* what retrieve returned
    rt_existed,    \* history: the file existed when load_index looked
    rt_writing,    \* history: index_document was writing the file when it was read
    rt_built,      \* history: built[doc_id] when the file was looked for, then when read
    rt_other,      \* history: index_document was at work on another doc_id when
                   \* load_index looked for the file or read it
    co_pc,         \* cmd_ask after retrieve: "off" | "input" | "returned" | "raised" | "shown"
    co_question,   \* compose_answer's question argument
    co_chunks,     \* its chunks argument: what retrieve returned
    co_doc_id,     \* its doc_id argument
    co_raw,        \* the backend's reply, stripped
    co_data,       \* its local data
    co_error,      \* the exception it raised, "" if none
    co_result,     \* the dict it returned
    co_printed     \* what cmd_ask printed

ck_vars == <<ck_pc, ck_segment, ck_chunks>>

ix_vars == <<index_dir, ix_pc, ix_filepath, ix_segments, ix_doc_id, ix_chunks,
             ix_pending, ix_ret, uuid_next, n_builds, built>>

rt_vars == <<rt_pc, rt_doc_id, rt_question, rt_top_k, rt_outcome, rt_chunks,
             rt_results, rt_existed, rt_writing, rt_built, rt_other>>

co_vars == <<co_pc, co_question, co_chunks, co_doc_id, co_raw, co_data, co_error,
             co_result, co_printed>>

vars == <<ck_vars, ix_vars, rt_vars, co_vars>>

(* ------------------------------------------------------------------ *)
(* Inputs                                                              *)
(* ------------------------------------------------------------------ *)
Vocabulary == <<"Alpha", "beta", "gamma">>

\* A text of n words, every third word followed by a line break.
TextOfLen(n) ==
    [j \in 1..(2 * n) |->
        IF j % 2 = 1 THEN Vocabulary[(((j + 1) \div 2) % 3) + 1]
        ELSE IF j % 6 = 0 THEN "\n" ELSE " "]

Segment(text, page_num, section) ==
    [text |-> text, page_num |-> page_num, section |-> section]

\* What extract returns: a non-empty list of segments, each with at least one
\* word (extractor.py keeps only pages, paragraphs and lines with text).
SegsSmall ==
    <<Segment(<<"Alpha", " ", "beta", "\n", "gamma">>, NonePage, "Intro"),
      Segment(<<"Beta">>, NonePage, "Usage")>>

SegsLong ==
    <<Segment(TextOfLen(CHUNK_WORDS + 10), 1, "Page 1"),
      Segment(<<"gamma", " ", "gamma">>, 2, "Page 2")>>

SegsMany ==
    <<Segment(<<"alpha">>, NonePage, "Document"),
      Segment(<<"beta">>, NonePage, "Install"),
      Segment(<<"Alpha">>, NonePage, "Usage"),
      Segment(<<"gamma", " ", "alpha">>, NonePage, "Options"),
      Segment(<<"beta">>, NonePage, "Errors"),
      Segment(<<"alpha">>, NonePage, "Limits"),
      Segment(<<"gamma">>, NonePage, "Credits"),
      Segment(<<"alpha", "\n", "alpha", " ", "beta">>, NonePage, "License")>>

\* What the file at a path may hold when it is indexed: _extract_text gives no
\* page numbers, _extract_pdf numbers the pages.
Documents(filepath) ==
    IF filepath = "a.txt" THEN {SegsSmall, SegsMany} ELSE {SegsLong}

Questions == {<<" ">>, <<"Alpha", " ", "?">>, <<"gamma", " ", "Beta">>}

TopKs == {1, 2, TOP_K}

(* ------------------------------------------------------------------ *)
(* The chunker on one segment                                          *)
(* ------------------------------------------------------------------ *)
ChunkIdle ==
    /\ ck_pc = "off"
    /\ ck_segment = Segment(<<>>, NonePage, NoneSection)
    /\ ck_chunks = <<>>

BuildChunks ==
    /\ ck_pc = "input"
    /\ ck_chunks' = _build_chunks("a5e54d1fd7bb", <<ck_segment>>, 1)
    /\ ck_pc' = "done"
    /\ UNCHANGED <<ck_segment, ix_vars, rt_vars, co_vars>>

(* ------------------------------------------------------------------ *)
(* index_document                                                      *)
(* ------------------------------------------------------------------ *)
NoBuild == [filepath |-> "", segments |-> <<>>, chunks |-> <<>>]

\* One file name for every doc_id.
IndexPathShared(doc_id) == "a5e54d1fd7bb"

\* INDEX_DIR / f"{doc_id}_chunks.json": the file of index_dir that holds doc_id,
\* index_dir being keyed by the doc_id in the file's name.
IndexPath(doc_id) == doc_id

IndexIdle ==
    /\ index_dir = [d \in DocIds |-> NoFile]
    /\ ix_pc = "idle"
    /\ ix_filepath = ""
    /\ ix_segments = <<>>
    /\ ix_doc_id = ""
    /\ ix_chunks = <<>>
    /\ ix_pending = <<>>
    /\ ix_ret = [p \in Paths |-> {}]
    /\ uuid_next = 1
    /\ n_builds = 0
    /\ built = [d \in DocIds |-> NoBuild]

\* doc_id = _doc_id(filepath); chunks = _build_chunks(doc_id, segments)
IndexStart(filepath, segments) ==
    /\ ix_pc = "idle"
    /\ n_builds < MaxBuilds
    /\ n_builds' = n_builds + 1
    /\ ix_filepath' = filepath
    /\ ix_segments' = segments
    /\ ix_doc_id' = _doc_id(filepath)
    /\ ix_chunks' = _build_chunks(_doc_id(filepath), segments, uuid_next)
    /\ uuid_next' = uuid_next + Len(ix_chunks')
    /\ ix_pc' = "open"
    /\ UNCHANGED <<index_dir, ix_pending, ix_ret, built, ck_vars, rt_vars, co_vars>>

\* INDEX_DIR.mkdir(exist_ok=True); open(index_path, "w")
IndexOpen ==
    /\ ix_pc = "open"
    /\ index_dir' = [index_dir EXCEPT ![IndexPath(ix_doc_id)] = FileOpenW(@)]
    /\ ix_pending' = Dump(ix_doc_id, ix_filepath, ix_chunks)
    /\ ix_pc' = "write"
    /\ UNCHANGED <<ix_filepath, ix_segments, ix_doc_id, ix_chunks, ix_ret,
                   uuid_next, n_builds, built, ck_vars, rt_vars, co_vars>>

\* json.dump fills the file's buffer, which is written out whenever it is full.
IndexFlush ==
    /\ ix_pc = "write"
    /\ Len(ix_pending) > BufferTokens
    /\ index_dir' = [index_dir EXCEPT
                       ![IndexPath(ix_doc_id)].data = @ \o SubSeq(ix_pending, 1, BufferTokens)]
    /\ ix_pending' = SubSeq(ix_pending, BufferTokens + 1, Len(ix_pending))
    /\ UNCHANGED <<ix_pc, ix_filepath, ix_segments, ix_doc_id, ix_chunks, ix_ret,
                   uuid_next, n_builds, built, ck_vars, rt_vars, co_vars>>

\* The end of the with block writes the rest and closes; return doc_id.
IndexClose ==
    /\ ix_pc = "write"
    /\ index_dir' = [index_dir EXCEPT ![IndexPath(ix_doc_id)].data = @ \o ix_pending]
    /\ ix_pending' = <<>>
    /\ ix_ret' = [ix_ret EXCEPT ![ix_filepath] = @ \cup {ix_doc_id}]
    /\ built' = [built EXCEPT ![ix_doc_id] =
                    [filepath |-> ix_filepath, segments |-> ix_segments, chunks |-> ix_chunks]]
    /\ ix_pc' = "idle"
    /\ UNCHANGED <<ix_filepath, ix_segments, ix_doc_id, ix_chunks, uuid_next,
                   n_builds, ck_vars, rt_vars, co_vars>>

(* ------------------------------------------------------------------ *)
(* retrieve, with its load_index                                       *)
(* ------------------------------------------------------------------ *)
RetrieveIdle ==
    /\ rt_pc = "idle"
    /\ rt_doc_id = ""
    /\ rt_question = <<>>
    /\ rt_top_k = TOP_K
    /\ rt_outcome = ""
    /\ rt_chunks = <<>>
    /\ rt_results = <<>>
    /\ rt_existed = FALSE
    /\ rt_writing = FALSE
    /\ rt_built = NoBuild
    /\ rt_other = FALSE

\* What load_index does for a path that does not exist.
MissingIndexSilent == "ok"

MissingIndex == "FileNotFoundError"

\* retrieve(doc_id, question, top_k); the question and top_k play no part before
\* the scores are computed and are drawn there.
RetrieveStart(doc_id) ==
    /\ rt_pc \in {"idle", "done"}
    /\ rt_doc_id' = doc_id
    /\ rt_question' = <<>>
    /\ rt_top_k' = TOP_K
    /\ rt_pc' = "check"
    /\ rt_outcome' = ""
    /\ rt_chunks' = <<>>
    /\ rt_results' = <<>>
    /\ rt_existed' = FALSE
    /\ rt_writing' = FALSE
    /\ rt_built' = NoBuild
    /\ rt_other' = FALSE
    /\ UNCHANGED <<ck_vars, ix_vars, co_vars>>

\* load_index: if not path.exists(): raise FileNotFoundError
LoadCheck ==
    /\ rt_pc = "check"
    /\ rt_existed' = index_dir[IndexPath(rt_doc_id)].exists
    /\ rt_built' = built[rt_doc_id]
    /\ rt_other' = (ix_pc # "idle" /\ ix_doc_id # rt_doc_id)
    /\ IF index_dir[IndexPath(rt_doc_id)].exists
       THEN /\ rt_pc' = "read"
            /\ UNCHANGED rt_outcome
       ELSE /\ rt_pc' = "done"
            /\ rt_outcome' = MissingIndex
    /\ UNCHANGED <<rt_doc_id, rt_question, rt_top_k, rt_chunks, rt_results,
                   rt_writing, ck_vars, ix_vars, co_vars>>

\* load_index: json.load(f), the BM25 instance; then retrieve scores and sorts.
LoadRead(question, top_k) ==
    /\ rt_pc = "read"
    /\ rt_question' = question
    /\ rt_top_k' = top_k
    /\ rt_writing' = (ix_pc = "write" /\ ix_doc_id = rt_doc_id)
    /\ rt_built' = built[rt_doc_id]
    /\ rt_other' = (rt_other \/ (ix_pc # "idle" /\ ix_doc_id # rt_doc_id))
    /\ rt_pc' = "done"
    /\ IF WellFormed(index_dir[IndexPath(rt_doc_id)].data)
       THEN /\ rt_outcome' = "ok"
            /\ rt_chunks' = Parse(index_dir[IndexPath(rt_doc_id)].data).chunks
            /\ rt_results' = RetrieveFrom(rt_chunks', question, top_k)
       ELSE /\ rt_outcome' = "JSONDecodeError"
            /\ UNCHANGED <<rt_chunks, rt_results>>
    /\ UNCHANGED <<rt_doc_id, rt_existed, ck_vars, ix_vars, co_vars>>

(* ------------------------------------------------------------------ *)
(* compose_answer and what cmd_ask prints                              *)
(* ------------------------------------------------------------------ *)
NoData == [kind |-> "none"]

NoResult == [question |-> <<>>, doc_id |-> "", found |-> FALSE, answer |-> "",
             citations |-> <<>>, retrieved_chunk_ids |-> <<>>, fallback |-> FALSE]

NoPrint == [answer |-> "", passages |-> <<>>, citations |-> <<>>]

ComposeIdle ==
    /\ co_pc = "off"
    /\ co_question = <<>>
    /\ co_chunks = <<>>
    /\ co_doc_id = ""
    /\ co_raw = <<>>
    /\ co_data = NoData
    /\ co_error = ""
    /\ co_result = NoResult
    /\ co_printed = NoPrint

\* A chunk_id that is not among the retrieved chunks.
RECURSIVE MaxChunkId(_)
MaxChunkId(chunks) ==
    IF Len(chunks) = 0 THEN 0
    ELSE LET m == MaxChunkId(Tail(chunks))
         IN IF chunks[1].chunk_id > m THEN chunks[1].chunk_id ELSE m

Cite(chunk_id, chunks) ==
    LET hit == {i \in 1..Len(chunks) : chunks[i].chunk_id = chunk_id}
    IN IF hit = {}
       THEN [chunk_id |-> chunk_id, page_num |-> NonePage, section |-> NoneSection,
             snippet |-> <<"gamma">>]
       ELSE LET c == chunks[CHOOSE i \in hit : TRUE]
            IN [chunk_id |-> chunk_id, page_num |-> c.page_num, section |-> c.section,
                snippet |-> SubSeq(c.text, 1, 1)]

\* The JSON values a reply may hold: an object with any of the three fields
\* missing, citing retrieved chunks or not, or a value that is no object.
JsonValues(chunks) ==
    LET real == chunks[1].chunk_id
        other == MaxChunkId(chunks) + 1
        cites == {<<>>, <<Cite(real, chunks)>>, <<Cite(other, chunks)>>,
                  <<Cite(real, chunks), Cite(other, chunks)>>}
    IN {[kind |-> "array"]} \cup
       {[kind |-> "object", has_found |-> hf, found |-> f, has_answer |-> ha,
         answer |-> a, has_citations |-> hc, citations |-> c] :
           hf \in BOOLEAN, f \in BOOLEAN, ha \in BOOLEAN,
           a \in {REFUSAL, "Two years."}, hc \in BOOLEAN, c \in cites}

\* An absent field has no value: keep one representative.
Canonical(v) ==
    \/ v.kind = "array"
    \/ /\ v.has_found \/ ~v.found
       /\ v.has_answer \/ v.answer = REFUSAL
       /\ v.has_citations \/ v.citations = <<>>

Replies(chunks) ==
    LET fj == [t |-> "fence_json"]
        f == [t |-> "fence"]
        ws == [t |-> "ws"]
        prose == [t |-> "prose"]
    IN {<<>>, <<prose>>} \cup
       UNION {{<<j>>,
               <<j, ws>>,
               <<fj, ws, j, ws, f>>,
               <<f, j, f>>,
               <<prose, ws, fj, j, f, ws, prose>>,
               <<fj, j>>,
               <<prose, ws, j>>,
               <<j, ws, fj, j, f>>} :
              j \in {[t |-> "json", v |-> v] : v \in {x \in JsonValues(chunks) : Canonical(x)}}}

\* compose_answer: the reply is parsed, and the result built from it.
ComposeAnswer(raw) ==
    /\ co_pc = "input"
    /\ co_raw' = Strip(raw)
    /\ LET parsed == _parse_json(Strip(raw))
       IN IF ~parsed.ok
          THEN /\ co_pc' = "raised"
               /\ co_error' = "JSONDecodeError"
               /\ UNCHANGED <<co_data, co_result>>
          ELSE IF parsed.data.kind # "object"
          THEN /\ co_pc' = "raised"
               /\ co_error' = "AttributeError"
               /\ co_data' = parsed.data
               /\ UNCHANGED co_result
          ELSE /\ co_pc' = "returned"
               /\ co_data' = parsed.data
               /\ co_result' = ComposeResult(co_question, co_chunks, co_doc_id, parsed.data)
               /\ UNCHANGED co_error
    /\ UNCHANGED <<co_question, co_chunks, co_doc_id, co_printed, ck_vars, ix_vars, rt_vars>>

\* cmd_ask: log_interaction(result), then the answer is printed.
PrintAnswer ==
    /\ co_pc = "returned"
    /\ co_printed' = Printed(co_result, co_chunks)
    /\ co_pc' = "shown"
    /\ UNCHANGED <<co_question, co_chunks, co_doc_id, co_raw, co_data, co_error,
                   co_result, ck_vars, ix_vars, rt_vars>>

(* ------------------------------------------------------------------ *)
(* Specifications                                                      *)
(* ------------------------------------------------------------------ *)
Init ==
    /\ ChunkIdle
    /\ IndexIdle
    /\ RetrieveIdle
    /\ ComposeIdle

Next ==
    \/ \E filepath \in Paths : \E segments \in Documents(filepath) :
         IndexStart(filepath, segments)
    \/ IndexOpen
    \/ IndexFlush
    \/ IndexClose
    \/ \E doc_id \in DocIds : RetrieveStart(doc_id)
    \/ LoadCheck
    \/ \E question \in Questions, top_k \in TopKs : LoadRead(question, top_k)

Spec == Init /\ [][Next]_vars

InitChunk ==
    /\ ck_pc = "input"
    /\ \E n \in 0..MaxWords : ck_segment = Segment(TextOfLen(n), 1, "Page 1")
    /\ ck_chunks = <<>>
    /\ IndexIdle
    /\ RetrieveIdle
    /\ ComposeIdle

NextChunk == BuildChunks

SpecChunk == InitChunk /\ [][NextChunk]_vars

\* compose_answer on what retrieve returned for an indexed document.
InitCompose ==
    /\ ChunkIdle
    /\ IndexIdle
    /\ RetrieveIdle
    /\ co_pc = "input"
    /\ \E filepath \in Paths, question \in Questions :
         /\ co_doc_id = _doc_id(filepath)
         /\ co_question = question
         /\ \E segments \in Documents(filepath), top_k \in {2, TOP_K} :
              co_chunks = RetrieveFrom(_build_chunks(_doc_id(filepath), segments, 1),
                                       question, top_k)
    /\ co_raw = <<>>
    /\ co_data = NoData
    /\ co_error = ""
    /\ co_result = NoResult
    /\ co_printed = NoPrint

NextCompose ==
    \/ \E raw \in Replies(co_chunks) : ComposeAnswer(raw)
    \/ PrintAnswer

SpecCompose == InitCompose /\ [][NextCompose]_vars

(* ------------------------------------------------------------------ *)
(* Properties                                                          *)
(* ------------------------------------------------------------------ *)
Returned == co_pc \in {"returned", "shown"}

\* C1: for every result compose_answer returns, whatever the reply holds (found
\* true, found false, or no found field), fallback is the negation of found.
C1_FallbackIsNotFound == Returned => (co_result.fallback = ~co_result.found)

\* C2: when the reply does not parse as JSON after the fences are stripped,
\* compose_answer raises nothing and returns found=false, answer "", no
\* citations and fallback=true.
C2_ParseFailureIsRefusal ==
    (co_pc \notin {"off", "input"} /\ ~_parse_json(co_raw).ok) =>
        /\ Returned
        /\ co_result.found = FALSE
        /\ co_result.answer = ""
        /\ co_result.citations = <<>>
        /\ co_result.fallback = TRUE

\* C3: every citation of a returned result names one of the result's
\* retrieved_chunk_ids, even when the reply names a chunk that was not retrieved.
C3_CitationsAreRetrieved ==
    Returned =>
        \A i \in 1..Len(co_result.citations) :
            \E j \in 1..Len(co_result.retrieved_chunk_ids) :
                co_result.citations[i].chunk_id = co_result.retrieved_chunk_ids[j]

\* C4: a load_index that runs while index_document writes the same doc_id sees
\* the whole previous record or the whole new one, never an empty or cut file.
C4_LoadSeesWholeRecord ==
    (rt_pc = "done" /\ rt_existed) =>
        /\ rt_outcome = "ok"
        /\ rt_chunks = rt_built.chunks

\* C5: a segment of N >= 1 words gives chunks whose word ranges cover [0, N);
\* every chunk but the last has CHUNK_WORDS words, the last has N - start words,
\* between 1 and CHUNK_WORDS; each chunk starts CHUNK_WORDS - OVERLAP_WORDS words
\* after the one before, sharing OVERLAP_WORDS words with it; only the last chunk
\* ends at N; and N = 600 gives exactly [0,250), [200,450), [400,600).
C5_ChunksCoverSegment ==
    LET words == Split(ck_segment.text)
        N == Len(words)
        n == Len(ck_chunks)
        Start(i) == ck_chunks[i].word_start
        Size(i) == Len(Split(ck_chunks[i].text))
        End(i) == Start(i) + Size(i)
    IN (ck_pc = "done" /\ N >= 1) =>
        /\ n >= 1
        /\ Start(1) = 0
        /\ End(n) = N
        /\ Size(n) = N - Start(n)
        /\ Size(n) >= 1 /\ Size(n) <= CHUNK_WORDS
        /\ \A i \in 1..(n - 1) : Size(i) = CHUNK_WORDS /\ End(i) < N
        /\ \A i \in 2..n : /\ Start(i) = Start(i - 1) + (CHUNK_WORDS - OVERLAP_WORDS)
                           /\ End(i - 1) - Start(i) = OVERLAP_WORDS
        /\ \A w \in 0..(N - 1) : \E i \in 1..n : Start(i) <= w /\ w < End(i)
        /\ \A i \in 1..n : Split(ck_chunks[i].text) = SubSeq(words, Start(i) + 1, End(i))
        /\ N = 600 => [i \in 1..n |-> <<Start(i), End(i)>>]
                        = <<(<<0, 250>>), (<<200, 450>>), (<<400, 600>>)>>

C5_Witness ==
    /\ ck_pc = "done"
    /\ Len(Split(ck_segment.text)) = 600
    /\ Len(ck_chunks) = 3
    /\ ck_chunks[3].word_start = 400

\* C6: once index_document has returned, the file of a doc_id holds one record,
\* that of the most recent call for its path: its chunks are exactly the chunks
\* that call built, with nothing of an earlier build; a doc_id never indexed has
\* no file; and every call for a path returned the same doc_id.
C6_RecordIsLatestBuild ==
    /\ \A d \in DocIds :
         ~(ix_pc = "write" /\ ix_doc_id = d) =>
            IF built[d] = NoBuild THEN index_dir[d] = NoFile
            ELSE /\ index_dir[d].exists
                 /\ WellFormed(index_dir[d].data)
                 /\ Parse(index_dir[d].data) =
                      [doc_id |-> d, filepath |-> built[d].filepath,
                       chunks |-> built[d].chunks]
                 /\ _doc_id(built[d].filepath) = d
    /\ \A p \in Paths : Cardinality(ix_ret[p]) <= 1
    /\ (ix_pc = "idle" /\ n_builds > 0) =>
          /\ built[ix_doc_id].chunks = ix_chunks
          /\ built[ix_doc_id].filepath = ix_filepath
          /\ ix_ret[ix_filepath] = {ix_doc_id}

\* The same path indexed twice, with different content the second time.
C6_Witness ==
    /\ ix_pc = "idle"
    /\ n_builds = 2
    /\ built["6f48c255b952"] = NoBuild
    /\ built["a5e54d1fd7bb"].segments = SegsSmall
    /\ built["a5e54d1fd7bb"].chunks[1].chunk_id > Len(SegsSmall)

\* C7: load_index, and so retrieve, on a doc_id with no index file raises
\* FileNotFoundError; a call that returns has found a file and returns chunks,
\* never an empty list.
C7_UnknownDocIsNotFound ==
    /\ (rt_pc = "done" /\ ~rt_existed) => rt_outcome = "FileNotFoundError"
    /\ (rt_pc = "done" /\ rt_outcome = "ok") =>
          /\ rt_existed
          /\ rt_chunks # <<>>
          /\ rt_results # <<>>
    /\ (rt_pc = "done" /\ rt_outcome # "ok") => (rt_chunks = <<>> /\ rt_results = <<>>)

\* retrieve on a doc_id never indexed, while another document is indexed.
C7_Witness ==
    /\ rt_pc = "done"
    /\ ~rt_existed
    /\ rt_outcome = "FileNotFoundError"
    /\ \E d \in DocIds : built[d] # NoBuild

\* The position in the loaded chunk list of the chunk a result was made from.
PosOf(result) == CHOOSE m \in 1..Len(rt_chunks) : rt_chunks[m].chunk_id = result.chunk_id

RawScores ==
    Bm25Scores([m \in 1..Len(rt_chunks) |-> _tokenize(rt_chunks[m].text)],
               _tokenize(rt_question))

\* C8: retrieve returns min(top_k, number of chunks) chunks, those with the
\* highest scores, in descending score order, equal scores in index order; each
\* is the stored chunk with its rounded score; a question without tokens gives
\* the first top_k chunks in index order.
C8_TopKStableDescending ==
    (rt_pc = "done" /\ rt_outcome = "ok") =>
        LET n == Len(rt_chunks)
            k == Len(rt_results)
            scores == RawScores
            pos == [i \in 1..k |-> PosOf(rt_results[i])]
            Before(a, b) == scores[a] > scores[b] \/ (scores[a] = scores[b] /\ a < b)
            picked == {pos[i] : i \in 1..k}
        IN /\ k = Min(rt_top_k, n)
           /\ \A i \in 1..k :
                /\ \E m \in 1..n : rt_chunks[m].chunk_id = rt_results[i].chunk_id
                /\ rt_results[i] =
                     [chunk_id |-> rt_chunks[pos[i]].chunk_id,
                      doc_id |-> rt_chunks[pos[i]].doc_id,
                      text |-> rt_chunks[pos[i]].text,
                      page_num |-> rt_chunks[pos[i]].page_num,
                      section |-> rt_chunks[pos[i]].section,
                      word_start |-> rt_chunks[pos[i]].word_start,
                      score |-> Round4(scores[pos[i]])]
           /\ \A i \in 1..k : \A j \in (i + 1)..k :
                /\ Before(pos[i], pos[j])
                /\ rt_results[i].score >= rt_results[j].score
           /\ \A m \in (1..n) \ picked : \A a \in picked : Before(a, m)
           /\ _tokenize(rt_question) = <<>> => \A i \in 1..k : pos[i] = i

\* Two of eight chunks returned, with equal positive scores, a chunk of the same
\* score left out.
C8_Witness ==
    /\ rt_pc = "done"
    /\ rt_outcome = "ok"
    /\ Len(rt_chunks) = 8
    /\ rt_top_k = 2
    /\ Len(rt_results) = 2
    /\ rt_results[1].score > 0
    /\ rt_results[1].score = rt_results[2].score
    /\ \E m \in 1..8 : /\ \A i \in 1..2 : rt_chunks[m].chunk_id # rt_results[i].chunk_id
                       /\ RawScores[m] = RawScores[PosOf(rt_results[1])]

\* The segment, by its section label, that a chunk was cut from.
SegmentOf(chunk, segments) ==
    CHOOSE s \in 1..Len(segments) : segments[s].section = chunk.section

\* C9: a load_index that reads the file of a finished build returns the list
\* _build_chunks produced for that build, every field of every chunk and in the
\* same order: the chunks of segment 1 by word_start, then those of segment 2, ...
C9_LoadReturnsWhatWasBuilt ==
    (rt_pc = "done" /\ rt_existed /\ ~rt_writing) =>
        LET segments == rt_built.segments
            n == Len(rt_chunks)
        IN /\ rt_outcome = "ok"
           /\ rt_chunks = rt_built.chunks
           /\ \A i \in 1..n :
                /\ \E s \in 1..Len(segments) : segments[s].section = rt_chunks[i].section
                /\ rt_chunks[i].page_num = segments[SegmentOf(rt_chunks[i], segments)].page_num
                /\ rt_chunks[i].doc_id = rt_doc_id
                /\ Split(rt_chunks[i].text) =
                     SubSeq(Split(segments[SegmentOf(rt_chunks[i], segments)].text),
                            rt_chunks[i].word_start + 1,
                            rt_chunks[i].word_start + Len(Split(rt_chunks[i].text)))
           /\ \A i \in 1..n : \A j \in (i + 1)..n :
                \/ SegmentOf(rt_chunks[i], segments) < SegmentOf(rt_chunks[j], segments)
                \/ /\ SegmentOf(rt_chunks[i], segments) = SegmentOf(rt_chunks[j], segments)
                   /\ rt_chunks[i].word_start < rt_chunks[j].word_start
           /\ \A s \in 1..Len(segments) : \E i \in 1..n : SegmentOf(rt_chunks[i], segments) = s

\* The two-page document loaded back: two chunks of page 1, then one of page 2.
C9_Witness ==
    /\ rt_pc = "done"
    /\ rt_outcome = "ok"
    /\ ~rt_writing
    /\ rt_built.segments = SegsLong
    /\ Len(rt_chunks) = 3
    /\ rt_chunks[2].word_start = CHUNK_WORDS - OVERLAP_WORDS
    /\ rt_chunks[3].page_num = 2

\* C10 as stated: a returned result whose found is false has the refusal as answer.
C10_NotFoundAnswerIsRefusal == (Returned /\ ~co_result.found) => co_result.answer = REFUSAL

\* C10, amended: compose_answer returns the reply's answer field as it is, or ""
\* when the reply has none, whatever found is; cmd_ask prints the refusal
\* whenever the result's fallback is true, and the result's answer otherwise.
C10_AnswerIsReplyAnswer ==
    /\ Returned =>
          co_result.answer = (IF co_data.has_answer THEN co_data.answer ELSE "")
    /\ co_pc = "shown" =>
          co_printed.answer = (IF co_result.fallback THEN REFUSAL ELSE co_result.answer)

\* A reply with found false and an answer that is not the refusal, printed.
C10_Witness ==
    /\ co_pc = "shown"
    /\ co_data.has_found
    /\ ~co_result.found
    /\ co_result.answer = "Two years."
    /\ co_printed.answer = REFUSAL

\* C11: index_document at work on one doc_id changes the file of no other
\* doc_id, and a load_index or retrieve of a doc_id that ran while
\* index_document was at work on another one returns what it would have
\* returned without that build: the chunks of its own doc_id's last build and
\* their retrieval, or FileNotFoundError if its doc_id was never indexed.
C11_OtherDocUnchanged ==
    \A d \in DocIds : d # ix_doc_id' => index_dir'[d] = index_dir[d]

C11_OtherDocResult ==
    (rt_pc = "done" /\ rt_other /\ ~rt_writing) =>
        IF rt_existed
        THEN /\ rt_outcome = "ok"
             /\ rt_chunks = rt_built.chunks
             /\ rt_results = RetrieveFrom(rt_built.chunks, rt_question, rt_top_k)
        ELSE /\ rt_outcome = "FileNotFoundError"
             /\ rt_built = NoBuild

C11_DocIdsDoNotInterfere ==
    [][C11_OtherDocUnchanged]_vars /\ []C11_OtherDocResult

C11_Witness ==
    /\ rt_pc = "done"
    /\ rt_other
    /\ rt_outcome = "ok"
    /\ rt_results # <<>>
    /\ ix_pc = "write"
    /\ ix_doc_id # rt_doc_id
    /\ index_dir[ix_doc_id].data # <<>>

====
